---- MODULE Spec2Model ----
(***************************************************************************)
(* State-machine model of the miniDraw canvas engine                       *)
(* (src/engine/include/engine.hpp, src/engine/src/engine.cpp).             *)
(*                                                                         *)
(* The engine is a single-threaded object: every public method (resize,    *)
(* execute, pointerEvent, tick) runs to completion, so each is one action. *)
(* C++ vectors are modelled as sequences (position p of a vector is        *)
(* element p + 1 of the sequence); the unordered maps as functions on      *)
(* their key sets.                                                         *)
(***************************************************************************)
EXTENDS Integers, Sequences, FiniteSets, TLC

VARIABLES
  width_,         \* Engine::width_
  height_,        \* Engine::height_
  rectangles_,    \* Engine::rectangles_   : sequence of Rectangle
  strokes_,       \* Engine::strokes_      : sequence of Stroke
  strokeIndex_,   \* Engine::strokeIndex_  : id -> position in strokes_ (0-based)
  presences_,     \* Engine::presences_    : pointer id -> Presence
  presenceOrder,  \* iteration order of presences_ (a sequence of its keys)
  returned,       \* the value returned by the latest tick() call
  lastCall,       \* history: the latest call made on the engine, with its arguments
  nCalls,         \* history: number of calls made so far
  finishedIds,    \* history: ids whose latest start/finish command was a finishStroke
  frozen,         \* history: position -> points a stroke had when it was finished
  run,            \* history: id -> the stroke started by the pending startStroke(id)
  created,        \* history: the createRectangle commands, in call order
  tickState,      \* history: the engine state at the latest tick() call
  observed        \* history: pointer id -> first color, latest coordinates, moves seen

vars == <<width_, height_, rectangles_, strokes_, strokeIndex_, presences_,
          presenceOrder, returned, lastCall, nCalls, finishedIds, frozen, run,
          created, tickState, observed>>

engineVars == <<width_, height_, rectangles_, strokes_, strokeIndex_, presences_,
                presenceOrder>>

-----------------------------------------------------------------------------
(* Bounds and input sets *)

\* Number of calls made on one engine in a behaviour.
MaxCalls == 5

\* resize / createEngine arguments <<width, height>>: each has one negative dimension.
Dimensions == { <<-5, 100>>, <<640, -1>> }

\* createRectangle commands; the second width is not representable as a float.
RectangleCommands ==
  { [type |-> "createRectangle", x |-> 1, y |-> 2, width |-> 10, height |-> 20,
     color |-> "red"],
    [type |-> "createRectangle", x |-> 3, y |-> 4, width |-> 16777217,
     height |-> 40, color |-> "blue"] }

StartCommands ==
  { [type |-> "startStroke", id |-> "a", x |-> 1, y |-> 2, size |-> 3, color |-> "red"],
    [type |-> "startStroke", id |-> "b", x |-> 5, y |-> 6, size |-> 4, color |-> "blue"] }

UpdateCommands ==
  { [type |-> "updateStroke", id |-> "a", x |-> 7, y |-> 8],
    [type |-> "updateStroke", id |-> "a", x |-> 9, y |-> 10],
    [type |-> "updateStroke", id |-> "b", x |-> 7, y |-> 8] }

FinishCommands ==
  { [type |-> "finishStroke", id |-> "a"], [type |-> "finishStroke", id |-> "b"] }

UnknownCommands == { [type |-> "deleteShape", id |-> "a"] }

Commands ==
  RectangleCommands \cup StartCommands \cup UpdateCommands \cup FinishCommands
    \cup UnknownCommands

MoveEvents ==
  { [type |-> "pointerMove", pointerId |-> 3, x |-> 10, y |-> 20],
    [type |-> "pointerMove", pointerId |-> 3, x |-> 30, y |-> 40],
    [type |-> "pointerMove", pointerId |-> -7, x |-> 10, y |-> 20] }

OtherEvents == { [type |-> "pointerDown", pointerId |-> 3, x |-> 10, y |-> 20] }

Events == MoveEvents \cup OtherEvents

-----------------------------------------------------------------------------
(* Helpers of engine.cpp *)

\* static_cast<float>(double) on an integral value: exact up to 2^24, then
\* rounded to the nearest representable float (ties to even).
RECURSIVE Ulp(_)
Ulp(a) == IF a < 16777216 THEN 1 ELSE 2 * Ulp(a \div 2)

ToFloat(v) ==
  LET a == IF v < 0 THEN -v ELSE v
      u == Ulp(a)
      q == a \div u
      r == a % u
      m == IF 2 * r < u THEN q
           ELSE IF 2 * r > u THEN q + 1
           ELSE IF q % 2 = 0 THEN q ELSE q + 1
  IN  IF v < 0 THEN -(m * u) ELSE m * u

makeRectangleId(index) == "rect-" \o ToString(index + 1)

makeRectangleName(index) == "Rectangle " \o ToString(index + 1)

makeStrokeName(index) == "Trace " \o ToString(index + 1)

\* Variant: the sequence number is shared between rectangles and strokes.
makeRectangle_sharedCounter(x, y, width, height, color) ==
  LET index == Len(rectangles_) + Len(strokes_)
  IN  [id |-> makeRectangleId(index), name |-> makeRectangleName(index),
       x |-> x, y |-> y, width |-> width, height |-> height, color |-> color]

makeRectangle(x, y, width, height, color) ==
  LET index == Len(rectangles_)
  IN  [id |-> makeRectangleId(index), name |-> makeRectangleName(index),
       x |-> x, y |-> y, width |-> width, height |-> height, color |-> color]

makeStroke(id, name, x, y, size, color) ==
  [id |-> id, name |-> name, color |-> color, size |-> size,
   points |-> << [x |-> x, y |-> y] >>]

\* The null pointer findStroke returns; otherwise it returns the position
\* (0-based) of the stroke it points to.
nullptr == -1

\* Variant: the stroke is looked up by scanning the collection for the id
\* instead of going through the active index.
findStroke_byScan(id) ==
  LET found == { p \in 1..Len(strokes_) : strokes_[p].id = id }
  IN  IF found = {} THEN nullptr
      ELSE (CHOOSE p \in found : \A q \in found : q <= p) - 1

findStroke(id) ==
  IF id \notin DOMAIN strokeIndex_
  THEN nullptr
  ELSE LET index == strokeIndex_[id]
       IN  IF index >= Len(strokes_) THEN nullptr ELSE index

\* std::unordered_map::erase(key)
erase(map, key) == [k \in DOMAIN map \ {key} |-> map[k]]

\* map[key] = value
assign(map, key, value) ==
  [k \in DOMAIN map \cup {key} |-> IF k = key THEN value ELSE map[k]]

\* The palette of colorForPointer and its size.
palette == <<"#22d3ee", "#f97316", "#a855f7", "#facc15", "#34d399", "#ef4444">>

\* The range of int.
INT_MAX == 2147483647
INT_MIN == -INT_MAX - 1

\* a % b of C++ on int, b > 0: the remainder has the sign of a.
cRem(a, b) ==
  IF a >= 0 THEN a % b
  ELSE LET m == a % b IN IF m = 0 THEN 0 ELSE m - b

\* What a read of palette[i] outside the array yields: not a palette color.
outOfBounds == "<out of bounds>"

\* The values `normalized` can take. std::abs(INT_MIN) overflows, which is
\* undefined: the build either wraps (abs gives INT_MIN and the remainder is
\* negative) or takes the result as the non-negative 2^31.
normalizedValues(pointer_id) ==
  IF pointer_id = INT_MIN
  THEN { cRem(INT_MIN, Len(palette)), ((INT_MAX % Len(palette)) + 1) % Len(palette) }
  ELSE LET abs == IF pointer_id < 0 THEN -pointer_id ELSE pointer_id
       IN  { cRem(abs, Len(palette)) }

\* The values colorForPointer can return.
colorForPointer(pointer_id) ==
  { IF normalized \in 0..(Len(palette) - 1) THEN palette[normalized + 1] ELSE outOfBounds :
      normalized \in normalizedValues(pointer_id) }

\* Variant: the dimension is stored as given.
clamp_none(v) == v

\* The clamping of Engine::resize, for one dimension.
clamp(v) == IF v < 0 THEN 0 ELSE v

\* All orders in which a key set can be iterated.
Orders(keys) ==
  { o \in [1..Cardinality(keys) -> keys] : \A k \in keys : \E i \in DOMAIN o : o[i] = k }

-----------------------------------------------------------------------------
Init ==
  /\ \E d \in Dimensions :
       /\ width_ = clamp(d[1])
       /\ height_ = clamp(d[2])
       /\ lastCall = [op |-> "createEngine", width |-> d[1], height |-> d[2]]
  /\ rectangles_ = << >>
  /\ strokes_ = << >>
  /\ strokeIndex_ = << >>
  /\ presences_ = << >>
  /\ presenceOrder = << >>
  /\ returned = [op |-> "none"]
  /\ nCalls = 0
  /\ finishedIds = {}
  /\ frozen = << >>
  /\ run = << >>
  /\ created = << >>
  /\ tickState = [op |-> "none"]
  /\ observed = << >>

\* Variant: the snapshot shares the engine's storage, so it reads the state
\* as it is after the mutation.
keptSnapshot_liveView ==
  IF returned = [op |-> "none"] THEN returned
  ELSE LET shapes ==
             [index \in 1..Len(rectangles_') |->
                [id |-> rectangles_'[index].id, name |-> rectangles_'[index].name,
                 kind |-> "rectangle", x |-> rectangles_'[index].x,
                 y |-> rectangles_'[index].y, width |-> rectangles_'[index].width,
                 height |-> rectangles_'[index].height,
                 color |-> rectangles_'[index].color]]
               \o [index \in 1..Len(strokes_') |->
                     [id |-> strokes_'[index].id, name |-> strokes_'[index].name,
                      kind |-> "stroke", color |-> strokes_'[index].color,
                      size |-> strokes_'[index].size,
                      points |-> strokes_'[index].points]]
       IN  [returned EXCEPT !.document.shapes = shapes]

\* What a snapshot that tick() returned earlier holds after a later call
\* mutated the engine: tick() copied every string and number into fresh
\* objects, so the snapshot is what it was.
keptSnapshot == returned

-----------------------------------------------------------------------------
(* Engine::resize *)

Resize(width, height) ==
  /\ nCalls < MaxCalls
  /\ width_' = clamp(width)
  /\ height_' = clamp(height)
  /\ lastCall' = [op |-> "resize", width |-> width, height |-> height]
  /\ nCalls' = nCalls + 1
  /\ UNCHANGED <<rectangles_, strokes_, strokeIndex_, presences_, presenceOrder,
                 finishedIds, frozen, run, created, tickState, observed>>
  /\ returned' = keptSnapshot

-----------------------------------------------------------------------------
(* Engine::execute, one operator per branch; each gives the next value of  *)
(* <<rectangles_, strokes_, strokeIndex_>>.                                 *)

createRectangle(command) ==
  LET x == ToFloat(command.x)
      y == ToFloat(command.y)
      width == ToFloat(command.width)
      height == ToFloat(command.height)
      color == command.color
  IN  << Append(rectangles_, makeRectangle(x, y, width, height, color)),
         strokes_, strokeIndex_ >>

\* Variant: the stroke name is numbered by the count of all shapes.
startStroke_sharedCounter(command) ==
  LET id == command.id
      x == ToFloat(command.x)
      y == ToFloat(command.y)
      size == ToFloat(command.size)
      color == command.color
      name == makeStrokeName(Len(strokes_) + Len(rectangles_))
      stroke == makeStroke(id, name, x, y, size, color)
  IN  << rectangles_, Append(strokes_, stroke),
         assign(strokeIndex_, stroke.id, Len(strokes_)) >>

\* Variant: the index entry is written after the stroke is pushed, so it
\* holds the new size and not the new stroke's position.
startStroke_indexAfterPush(command) ==
  LET id == command.id
      x == ToFloat(command.x)
      y == ToFloat(command.y)
      size == ToFloat(command.size)
      color == command.color
      name == makeStrokeName(Len(strokes_))
      stroke == makeStroke(id, name, x, y, size, color)
  IN  << rectangles_, Append(strokes_, stroke),
         assign(strokeIndex_, stroke.id, Len(strokes_) + 1) >>

\* Variant: starting a stroke ends every other active stroke.
startStroke_singleActive(command) ==
  LET id == command.id
      x == ToFloat(command.x)
      y == ToFloat(command.y)
      size == ToFloat(command.size)
      color == command.color
      name == makeStrokeName(Len(strokes_))
      stroke == makeStroke(id, name, x, y, size, color)
  IN  << rectangles_, Append(strokes_, stroke),
         assign(<< >>, stroke.id, Len(strokes_)) >>

\* Variant: the index entry is inserted (emplace) and not overwritten, so an
\* id that is already active keeps pointing at its older stroke.
startStroke_emplace(command) ==
  LET id == command.id
      x == ToFloat(command.x)
      y == ToFloat(command.y)
      size == ToFloat(command.size)
      color == command.color
      name == makeStrokeName(Len(strokes_))
      stroke == makeStroke(id, name, x, y, size, color)
  IN  << rectangles_, Append(strokes_, stroke),
         IF stroke.id \in DOMAIN strokeIndex_ THEN strokeIndex_
         ELSE assign(strokeIndex_, stroke.id, Len(strokes_)) >>

startStroke(command) ==
  LET id == command.id
      x == ToFloat(command.x)
      y == ToFloat(command.y)
      size == ToFloat(command.size)
      color == command.color
      name == makeStrokeName(Len(strokes_))
      stroke == makeStroke(id, name, x, y, size, color)
  IN  << rectangles_, Append(strokes_, stroke),
         assign(strokeIndex_, stroke.id, Len(strokes_)) >>

\* Variant: an update for an id that is not active starts a stroke implicitly.
updateStroke_upsert(command) ==
  LET id == command.id
      x == ToFloat(command.x)
      y == ToFloat(command.y)
      stroke == findStroke(id)
  IN  IF stroke # nullptr
      THEN << rectangles_,
              [strokes_ EXCEPT ![stroke + 1].points = Append(@, [x |-> x, y |-> y])],
              strokeIndex_ >>
      ELSE << rectangles_,
              Append(strokes_, makeStroke(id, makeStrokeName(Len(strokes_)), x, y, 1, "")),
              strokeIndex_ >>

\* Variant: the new point overwrites the stroke's last point.
updateStroke_overwrite(command) ==
  LET id == command.id
      x == ToFloat(command.x)
      y == ToFloat(command.y)
      stroke == findStroke(id)
  IN  IF stroke # nullptr
      THEN << rectangles_,
              [strokes_ EXCEPT ![stroke + 1].points =
                 [@ EXCEPT ![Len(@)] = [x |-> x, y |-> y]]],
              strokeIndex_ >>
      ELSE << rectangles_, strokes_, strokeIndex_ >>

updateStroke(command) ==
  LET id == command.id
      x == ToFloat(command.x)
      y == ToFloat(command.y)
      stroke == findStroke(id)
  IN  IF stroke # nullptr
      THEN << rectangles_,
              [strokes_ EXCEPT ![stroke + 1].points = Append(@, [x |-> x, y |-> y])],
              strokeIndex_ >>
      ELSE << rectangles_, strokes_, strokeIndex_ >>

\* Variant: finishing a stroke also removes it from the stroke collection.
finishStroke_removesStroke(command) ==
  LET found == findStroke(command.id)
  IN  << rectangles_,
         IF found = nullptr THEN strokes_
         ELSE SubSeq(strokes_, 1, found) \o SubSeq(strokes_, found + 2, Len(strokes_)),
         erase(strokeIndex_, command.id) >>

\* Variant: finishing one stroke clears the whole active index.
finishStroke_clear(command) ==
  << rectangles_, strokes_, << >> >>

\* Variant: the id is left in the active index.
finishStroke_noErase(command) ==
  << rectangles_, strokes_, strokeIndex_ >>

finishStroke(command) ==
  << rectangles_, strokes_, erase(strokeIndex_, command.id) >>

\* History of the commands: the arguments are recorded as the caller gave them.
ExecuteHistory(command) ==
  IF command.type = "createRectangle" THEN
    /\ created' = Append(created, command)
    /\ UNCHANGED <<finishedIds, frozen, run>>
  ELSE IF command.type = "startStroke" THEN
    /\ finishedIds' = finishedIds \ {command.id}
    /\ run' = assign(run, command.id,
                     [pos |-> Len(strokes_) + 1,
                      points |-> << [x |-> command.x, y |-> command.y] >>])
    /\ UNCHANGED <<frozen, created>>
  ELSE IF command.type = "updateStroke" THEN
    /\ run' = IF command.id \in DOMAIN run
              THEN [run EXCEPT ![command.id].points =
                      Append(@, [x |-> command.x, y |-> command.y])]
              ELSE run
    /\ UNCHANGED <<finishedIds, frozen, created>>
  ELSE IF command.type = "finishStroke" THEN
    /\ finishedIds' = finishedIds \cup {command.id}
    /\ run' = erase(run, command.id)
    /\ frozen' = IF command.id \in DOMAIN strokeIndex_
                 THEN assign(frozen, strokeIndex_[command.id] + 1,
                             strokes_[strokeIndex_[command.id] + 1].points)
                 ELSE frozen
    /\ UNCHANGED created
  ELSE UNCHANGED <<finishedIds, frozen, run, created>>

\* Variant: the last branch is a plain else, taken for every other type.
executeBranch_lastBranchUnchecked(command) ==
  LET type == command.type
  IN  IF type = "createRectangle" THEN createRectangle(command)
      ELSE IF type = "startStroke" THEN startStroke(command)
      ELSE IF type = "updateStroke" THEN updateStroke(command)
      ELSE finishStroke(command)

\* The chain of type tests of Engine::execute; a type none of them matches
\* falls through to the end of the function.
executeBranch(command) ==
  LET type == command.type
  IN  IF type = "createRectangle" THEN createRectangle(command)
      ELSE IF type = "startStroke" THEN startStroke(command)
      ELSE IF type = "updateStroke" THEN updateStroke(command)
      ELSE IF type = "finishStroke" THEN finishStroke(command)
      ELSE << rectangles_, strokes_, strokeIndex_ >>

Execute(command) ==
  /\ nCalls < MaxCalls
  /\ LET next == executeBranch(command)
     IN  /\ rectangles_' = next[1]
         /\ strokes_' = next[2]
         /\ strokeIndex_' = next[3]
  /\ ExecuteHistory(command)
  /\ lastCall' = [op |-> "execute", command |-> command]
  /\ nCalls' = nCalls + 1
  /\ UNCHANGED <<width_, height_, presences_, presenceOrder, tickState, observed>>
  /\ returned' = keptSnapshot

-----------------------------------------------------------------------------
(* Engine::updatePresence and Engine::pointerEvent *)

\* Variant: emplace only; an existing entry is not updated.
updatePresence_emplaceOnly(pointer_id, x, y) ==
  IF pointer_id \notin DOMAIN presences_
  THEN { assign(presences_, pointer_id,
                [id |-> ToString(pointer_id), color |-> color, x |-> x, y |-> y]) :
           color \in colorForPointer(pointer_id) }
  ELSE { presences_ }

\* The values presences_ can have after the call (one, unless colorForPointer
\* is undefined for the pointer id).
updatePresence(pointer_id, x, y) ==
  IF pointer_id \notin DOMAIN presences_
  THEN { assign(presences_, pointer_id,
                [id |-> ToString(pointer_id), color |-> color, x |-> x, y |-> y]) :
           color \in colorForPointer(pointer_id) }
  ELSE { [presences_ EXCEPT ![pointer_id].x = x, ![pointer_id].y = y] }

PointerEvent(event) ==
  /\ nCalls < MaxCalls
  /\ IF event.type # "pointerMove"
     THEN UNCHANGED <<presences_, presenceOrder, observed>>
     ELSE LET pointer_id == event.pointerId
              x == ToFloat(event.x)
              y == ToFloat(event.y)
          IN  /\ presences_' \in updatePresence(pointer_id, x, y)
              \* an insertion may rehash: afterwards the keys iterate in some order;
              \* an update in place leaves the order alone
              /\ IF DOMAIN presences_' = DOMAIN presences_
                 THEN presenceOrder' = presenceOrder
                 ELSE presenceOrder' \in Orders(DOMAIN presences_')
              /\ observed' =
                   assign(observed, pointer_id,
                          [color |-> IF pointer_id \in DOMAIN observed
                                     THEN observed[pointer_id].color
                                     ELSE presences_'[pointer_id].color,
                           x |-> event.x, y |-> event.y,
                           moves |-> IF pointer_id \in DOMAIN observed
                                     THEN observed[pointer_id].moves + 1
                                     ELSE 1])
  /\ lastCall' = [op |-> "pointerEvent", event |-> event]
  /\ nCalls' = nCalls + 1
  /\ UNCHANGED <<width_, height_, rectangles_, strokes_, strokeIndex_,
                 finishedIds, frozen, run, created, tickState>>
  /\ returned' = keptSnapshot

-----------------------------------------------------------------------------
(* Engine::tick *)

rectangleShape(rect) ==
  [id |-> rect.id, name |-> rect.name, kind |-> "rectangle", x |-> rect.x,
   y |-> rect.y, width |-> rect.width, height |-> rect.height, color |-> rect.color]

\* Variant: the point loop stops one short.
strokeShape_dropsLastPoint(stroke) ==
  [id |-> stroke.id, name |-> stroke.name, kind |-> "stroke", color |-> stroke.color,
   size |-> stroke.size,
   points |-> [index \in 1..(Len(stroke.points) - 1) |->
                 [x |-> stroke.points[index].x, y |-> stroke.points[index].y]]]

strokeShape(stroke) ==
  [id |-> stroke.id, name |-> stroke.name, kind |-> "stroke", color |-> stroke.color,
   size |-> stroke.size,
   points |-> [index \in 1..Len(stroke.points) |->
                 [x |-> stroke.points[index].x, y |-> stroke.points[index].y]]]

presenceVal(presence) ==
  [id |-> presence.id, color |-> presence.color, x |-> presence.x, y |-> presence.y]

\* Variant: the stroke loop runs before the rectangle loop.
tick_strokesFirst ==
  LET shapes ==
        [index \in 1..Len(strokes_) |-> strokeShape(strokes_[index])]
          \o [index \in 1..Len(rectangles_) |-> rectangleShape(rectangles_[index])]
      presences ==
        [index \in 1..Len(presenceOrder) |-> presenceVal(presences_[presenceOrder[index]])]
      document ==
        [id |-> "doc-native", name |-> "Composition native", shapes |-> shapes]
  IN  [document |-> document, presences |-> presences]

tick ==
  LET shapes ==
        [index \in 1..Len(rectangles_) |-> rectangleShape(rectangles_[index])]
          \o [index \in 1..Len(strokes_) |-> strokeShape(strokes_[index])]
      presences ==
        [index \in 1..Len(presenceOrder) |-> presenceVal(presences_[presenceOrder[index]])]
      document ==
        [id |-> "doc-native", name |-> "Composition native", shapes |-> shapes]
  IN  [document |-> document, presences |-> presences]

Tick ==
  /\ nCalls < MaxCalls
  /\ returned' = tick
  /\ tickState' = [rectangles |-> rectangles_, strokes |-> strokes_,
                   presences |-> presences_, order |-> presenceOrder]
  /\ lastCall' = [op |-> "tick"]
  /\ nCalls' = nCalls + 1
  /\ UNCHANGED <<engineVars, finishedIds, frozen, run, created, observed>>

-----------------------------------------------------------------------------
Next ==
  \/ \E d \in Dimensions : Resize(d[1], d[2])
  \/ \E command \in Commands : Execute(command)
  \/ \E event \in Events : PointerEvent(event)
  \/ Tick

Spec == Init /\ [][Next]_vars

\* pointerMove events for pointer ids over the whole range of int.
Int32MoveEvents ==
  { [type |-> "pointerMove", pointerId |-> p, x |-> 10, y |-> 20] :
      p \in { INT_MIN, -7, 0, INT_MAX } }

NextPointers ==
  \E event \in Int32MoveEvents \cup OtherEvents : PointerEvent(event)

\* The engine driven by pointer events only, with pointer ids from the whole
\* range of int.
SpecPointers == Init /\ [][NextPointers]_vars

-----------------------------------------------------------------------------
(* Properties *)

\* The call just made was execute with a command of this type.
Executed(type) == lastCall.op = "execute" /\ lastCall.command.type = type

\* Decimal numerals, written out.
Numeral == <<"1", "2", "3", "4", "5", "6", "7", "8", "9", "10">>

\* C1: no two rectangles of the rectangle collection share an id, and no two
\* strokes of the stroke collection share an id.
C1_UniqueIds ==
  /\ \A i, j \in 1..Len(rectangles_) :
        i # j => rectangles_[i].id # rectangles_[j].id
  /\ \A i, j \in 1..Len(strokes_) :
        i # j => strokes_[i].id # strokes_[j].id

\* C2: whatever other calls are interleaved, the k-th createRectangle call
\* produced the rectangle at position k, with id "rect-k" and name
\* "Rectangle k".
C2_RectangleNumbering ==
  /\ Len(rectangles_) = Len(created)
  /\ \A k \in 1..Len(created) :
        /\ rectangles_[k].id = "rect-" \o Numeral[k]
        /\ rectangles_[k].name = "Rectangle " \o Numeral[k]
        /\ rectangles_[k].x = created[k].x
        /\ rectangles_[k].y = created[k].y
        /\ rectangles_[k].color = created[k].color

\* C2 witness: a second rectangle was just created after strokes were started.
C2_Witness ==
  /\ Executed("createRectangle")
  /\ Len(rectangles_) = 2
  /\ Len(strokes_) >= 2

\* C3: once finishStroke(id) was executed and no startStroke(id) came after
\* it, every updateStroke(id) and finishStroke(id) leaves the strokes, the
\* active index, the rectangles and the presences as they were.
C3_FinishedIdIsNoOp ==
  [][ ( /\ lastCall'.op = "execute"
        /\ lastCall'.command.type \in {"updateStroke", "finishStroke"}
        /\ lastCall'.command.id \in finishedIds )
      => /\ Len(strokes_') = Len(strokes_)
         /\ \A i \in 1..Len(strokes_) : strokes_'[i].points = strokes_[i].points
         /\ UNCHANGED <<strokes_, strokeIndex_, rectangles_, presences_>> ]_vars

\* C3 witness: updateStroke(id) was just executed on an id that was started
\* and then finished.
C3_Witness ==
  /\ Executed("updateStroke")
  /\ lastCall.command.id \in finishedIds
  /\ \E i \in 1..Len(strokes_) : strokes_[i].id = lastCall.command.id

\* C4: a stroke that was the active target of a finishStroke keeps, in every
\* later state, the points it had when it was finished.
C4_FinishedStrokeKeepsPoints ==
  \A pos \in DOMAIN frozen :
    /\ pos <= Len(strokes_)
    /\ strokes_[pos].points = frozen[pos]

\* C4 witness: the id of a finished stroke was started again and the new
\* stroke was updated.
C4_Witness ==
  \E pos \in DOMAIN frozen :
    \E j \in (pos + 1)..Len(strokes_) :
      /\ strokes_[j].id = strokes_[pos].id
      /\ Len(strokes_[j].points) >= 2

IsPrefix(s, t) == Len(s) <= Len(t) /\ SubSeq(t, 1, Len(s)) = s

\* C5: in every step, every stroke's points before the step are a prefix of
\* its points after the step, and the step lengthens at most one stroke, by
\* at most one point.
C5_PointsAppendOnly ==
  [][ /\ Len(strokes_') >= Len(strokes_)
      /\ \A i \in 1..Len(strokes_) :
            /\ IsPrefix(strokes_[i].points, strokes_'[i].points)
            /\ Len(strokes_'[i].points) <= Len(strokes_[i].points) + 1
      /\ Cardinality({ i \in 1..Len(strokes_) :
                         strokes_'[i].points # strokes_[i].points }) <= 1 ]_vars

\* C5 witness: an updateStroke just appended a third point to a stroke while
\* another stroke exists.
C5_Witness ==
  /\ Executed("updateStroke")
  /\ Len(strokes_) >= 2
  /\ \E i \in 1..Len(strokes_) :
        /\ strokes_[i].id = lastCall.command.id
        /\ Len(strokes_[i].points) >= 3

\* C6: after startStroke(id, x0, y0) and n updateStroke(id, xi, yi) with no
\* startStroke(id) or finishStroke(id) in between, the stroke that
\* startStroke created holds exactly (x0,y0), (x1,y1), .., (xn,yn) in call
\* order, whatever other calls were interleaved.
C6_StartedStrokePoints ==
  \A id \in DOMAIN run :
    /\ run[id].pos <= Len(strokes_)
    /\ strokes_[run[id].pos].id = id
    /\ strokes_[run[id].pos].points = run[id].points

\* C6 witness: a stroke received two updates since its start, with a
\* rectangle created and another stroke started meanwhile.
C6_Witness ==
  \E id \in DOMAIN run :
    /\ Len(run[id].points) = 3
    /\ run[id].pos < Len(strokes_)
    /\ Len(rectangles_) >= 1

\* C7: updateStroke(id, x, y) with an id that is not in the active index
\* changes nothing: the snapshot tick() returns after it equals the one it
\* returns before it, and the active index is unchanged.
C7_UpdateOfInactiveIdIsNoOp ==
  [][ ( /\ lastCall'.op = "execute"
        /\ lastCall'.command.type = "updateStroke"
        /\ lastCall'.command.id \notin DOMAIN strokeIndex_ )
      => /\ tick' = tick
         /\ strokeIndex_' = strokeIndex_ ]_vars

\* C7 witness: updateStroke was just executed on an id that was never
\* started, in an engine that holds a stroke and a presence.
C7_Witness ==
  /\ Executed("updateStroke")
  /\ lastCall.command.id \notin DOMAIN strokeIndex_
  /\ \A i \in 1..Len(strokes_) : strokes_[i].id # lastCall.command.id
  /\ Len(strokes_) >= 1
  /\ DOMAIN presences_ # {}

\* C8: finishStroke(id) removes id from the active index and changes nothing
\* else; when id is not active the whole engine state is unchanged, and
\* applying finishStroke(id) again changes nothing more.
C8_FinishOnlyErasesIndexEntry ==
  [][ ( /\ lastCall'.op = "execute"
        /\ lastCall'.command.type = "finishStroke" )
      => LET id == lastCall'.command.id
         IN  /\ strokes_' = strokes_
             /\ DOMAIN strokeIndex_' = DOMAIN strokeIndex_ \ {id}
             /\ \A k \in DOMAIN strokeIndex_' : strokeIndex_'[k] = strokeIndex_[k]
             /\ UNCHANGED <<rectangles_, presences_, presenceOrder, width_, height_>>
             /\ id \notin DOMAIN strokeIndex_ => UNCHANGED engineVars
             /\ \A c \in FinishCommands :
                  c.id = id =>
                    finishStroke(c)' = <<rectangles_', strokes_', strokeIndex_'>> ]_vars

\* C8 witness: finishStroke was just executed on a stroke that had been
\* active, while another id stays active.
C8_Witness ==
  /\ Executed("finishStroke")
  /\ \E pos \in DOMAIN frozen : strokes_[pos].id = lastCall.command.id
  /\ DOMAIN strokeIndex_ # {}

\* C9: startStroke(id, x, y, size, color) appends exactly one stroke at the
\* end of the stroke collection, with the supplied id, size and color, the
\* single point (x, y) and the name "Trace k", k being one more than the
\* number of strokes before the call, and makes id active, pointing at it.
C9_StartAppendsOneStroke ==
  [][ ( /\ lastCall'.op = "execute"
        /\ lastCall'.command.type = "startStroke" )
      => LET c == lastCall'.command
             k == Len(strokes_) + 1
         IN  /\ strokes_' =
                  Append(strokes_,
                         [id |-> c.id, name |-> "Trace " \o Numeral[k],
                          color |-> c.color, size |-> c.size,
                          points |-> << [x |-> c.x, y |-> c.y] >>])
             /\ c.id \in DOMAIN strokeIndex_'
             /\ strokeIndex_'[c.id] + 1 = k ]_vars

\* C9 witness: a third stroke was just started in an engine that holds
\* rectangles.
C9_Witness ==
  /\ Executed("startStroke")
  /\ Len(strokes_) = 3
  /\ Len(rectangles_) >= 1

\* C10: the presence map holds exactly one entry for each pointer id that a
\* pointerMove named and none for others; the entry has the coordinates of
\* the latest pointerMove for that id and the color it was created with.
C10_PresencePerObservedPointer ==
  /\ DOMAIN presences_ = DOMAIN observed
  /\ Len(tick.presences) = Cardinality(DOMAIN observed)
  /\ \A p \in DOMAIN observed :
       /\ presences_[p].x = observed[p].x
       /\ presences_[p].y = observed[p].y
       /\ presences_[p].color = observed[p].color
       /\ Cardinality({ i \in 1..Len(tick.presences) :
                          tick.presences[i].id = ToString(p) }) = 1

\* C10 witness: two pointers were observed, one of them moved again to other
\* coordinates.
C10_Witness ==
  /\ Cardinality(DOMAIN observed) = 2
  /\ \E p \in DOMAIN observed :
       /\ observed[p].moves >= 2
       /\ observed[p].x = 30
       /\ lastCall.op = "pointerEvent"

\* |p| mod 6, computed without leaving the range of int.
AbsMod6(p) == IF p >= 0 THEN p % 6 ELSE (6 - (p % 6)) % 6

\* C11: for every pointer id of the range of int, the most negative one
\* included, the color of a new presence is the palette color at index
\* abs(pointerId) mod 6, an index in 0..5.
C11_ColorIsPaletteAtAbsMod6 ==
  \A p \in DOMAIN presences_ :
    /\ AbsMod6(p) \in 0..5
    /\ presences_[p].color = palette[AbsMod6(p) + 1]

\* C12: the shapes list tick() returns is all rectangles in insertion order,
\* each tagged "rectangle", followed by all strokes in insertion order, each
\* tagged "stroke" with its full point sequence; its length is the number of
\* rectangles plus the number of strokes.
C12_ShapesAreRectanglesThenStrokes ==
  LET shapes == tick.document.shapes
      nr == Len(rectangles_)
      ns == Len(strokes_)
  IN  /\ Len(shapes) = nr + ns
      /\ \A i \in 1..nr :
           /\ shapes[i].kind = "rectangle"
           /\ shapes[i].id = rectangles_[i].id
           /\ shapes[i].name = rectangles_[i].name
           /\ <<shapes[i].x, shapes[i].y, shapes[i].width, shapes[i].height>> =
                <<rectangles_[i].x, rectangles_[i].y, rectangles_[i].width,
                  rectangles_[i].height>>
           /\ shapes[i].color = rectangles_[i].color
      /\ \A j \in 1..ns :
           /\ shapes[nr + j].kind = "stroke"
           /\ shapes[nr + j].id = strokes_[j].id
           /\ shapes[nr + j].name = strokes_[j].name
           /\ shapes[nr + j].color = strokes_[j].color
           /\ shapes[nr + j].size = strokes_[j].size
           /\ shapes[nr + j].points = strokes_[j].points
      /\ lastCall.op = "tick" => returned = tick

\* C12 witness: the first rectangle was just created, after two strokes (one
\* of them with several points), and tick() lists it first.
C12_Witness ==
  /\ Executed("createRectangle")
  /\ Len(rectangles_) = 1
  /\ Len(strokes_) = 2
  /\ \E j \in 1..Len(strokes_) : Len(strokes_[j].points) >= 2
  /\ tick.document.shapes[1].kind = "rectangle"
  /\ tick.document.shapes[3].kind = "stroke"

\* The elements of a sequence, as a set.
Range(s) == { s[i] : i \in 1..Len(s) }

\* C13: tick() leaves rectangles, strokes, the active index, presences and
\* the canvas dimensions unchanged; two tick() calls in a row return equal
\* snapshots (presences compared as a set); and the snapshot holds every
\* rectangle, every stroke with all its points and every presence of the
\* engine state.
C13_TickReadOnlyAndComplete ==
  [][ lastCall'.op = "tick"
      => /\ UNCHANGED <<width_, height_, rectangles_, strokes_, strokeIndex_,
                        presences_>>
         /\ lastCall.op = "tick"
              => /\ returned'.document = returned.document
                 /\ Range(returned'.presences) = Range(returned.presences)
         /\ \A i \in 1..Len(rectangles_) :
              \E k \in 1..Len(returned'.document.shapes) :
                LET s == returned'.document.shapes[k]
                IN  /\ s.kind = "rectangle"
                    /\ s.id = rectangles_[i].id
                    /\ s.name = rectangles_[i].name
                    /\ s.color = rectangles_[i].color
                    /\ <<s.x, s.y, s.width, s.height>> =
                         <<rectangles_[i].x, rectangles_[i].y, rectangles_[i].width,
                           rectangles_[i].height>>
         /\ \A j \in 1..Len(strokes_) :
              \E k \in 1..Len(returned'.document.shapes) :
                LET s == returned'.document.shapes[k]
                IN  /\ s.kind = "stroke"
                    /\ s.id = strokes_[j].id
                    /\ s.name = strokes_[j].name
                    /\ s.points = strokes_[j].points
         /\ \A p \in DOMAIN presences_ :
              \E k \in 1..Len(returned'.presences) :
                returned'.presences[k] =
                  [id |-> presences_[p].id, color |-> presences_[p].color,
                   x |-> presences_[p].x, y |-> presences_[p].y] ]_vars

\* C13 witness: tick() was just called on an engine holding a rectangle, a
\* stroke of two points and a presence.
C13_Witness ==
  /\ lastCall.op = "tick"
  /\ returned = tick
  /\ Len(rectangles_) >= 1
  /\ \E j \in 1..Len(strokes_) : Len(strokes_[j].points) >= 2
  /\ DOMAIN presences_ # {}

C15_UnknownKindsAreIgnored ==
  [][ /\ ( /\ lastCall'.op = "execute"
           /\ lastCall'.command.type \notin
                {"createRectangle", "startStroke", "updateStroke", "finishStroke"} )
         => UNCHANGED engineVars
      /\ ( /\ lastCall'.op = "pointerEvent"
           /\ lastCall'.event.type # "pointerMove" )
         => UNCHANGED engineVars ]_vars

\* C15 witness: an unknown command naming an active stroke id was just
\* executed on an engine that also holds a presence.
C15_Witness ==
  /\ lastCall.op = "execute"
  /\ lastCall.command \in UnknownCommands
  /\ lastCall.command.id \in DOMAIN strokeIndex_
  /\ DOMAIN presences_ # {}

\* C16: after resize(w, h), and after createEngine(w, h), the stored width is
\* max(0, w) and the stored height is max(0, h), each clamped on its own; the
\* stored width and height are non-negative in every reachable state.
C16_DimensionsClamped ==
  /\ width_ >= 0
  /\ height_ >= 0
  /\ lastCall.op \in {"resize", "createEngine"}
       => /\ width_ = (IF lastCall.width > 0 THEN lastCall.width ELSE 0)
          /\ height_ = (IF lastCall.height > 0 THEN lastCall.height ELSE 0)

\* C16 witness: resize(-5, 100) was just called on an engine created with
\* other dimensions, and stored 0 and 100.
C16_Witness ==
  /\ lastCall = [op |-> "resize", width |-> -5, height |-> 100]
  /\ nCalls >= 2
  /\ width_ = 0
  /\ height_ = 100

\* The positions of the stroke collection whose stroke a step created or changed.
TouchedStrokes ==
  { i \in 1..Len(strokes_') : i > Len(strokes_) \/ strokes_'[i] # strokes_[i] }

\* The keys of a map whose entry a step created, removed or changed.
TouchedKeys(before, after) ==
  { k \in DOMAIN before \cup DOMAIN after :
      \/ k \notin DOMAIN before
      \/ k \notin DOMAIN after
      \/ before[k] # after[k] }

\* C17: an execute call changes at most one slot of the rectangle collection
\* or one stroke (with the index entry of that stroke's id), and neither
\* presences nor dimensions; a pointerEvent changes at most one presence
\* entry and neither rectangles, strokes nor the index; resize changes only
\* the dimensions.
C17_OneEntityPerCall ==
  [][ /\ lastCall'.op = "execute"
         => /\ UNCHANGED <<presences_, presenceOrder, width_, height_>>
            /\ Len(rectangles_') \in {Len(rectangles_), Len(rectangles_) + 1}
            /\ SubSeq(rectangles_', 1, Len(rectangles_)) = rectangles_
            /\ Len(strokes_') >= Len(strokes_)
            /\ Cardinality(TouchedStrokes) <= 1
            /\ rectangles_' # rectangles_ =>
                 TouchedStrokes = {} /\ strokeIndex_' = strokeIndex_
            /\ \A k \in TouchedKeys(strokeIndex_, strokeIndex_') :
                 /\ k = lastCall'.command.id
                 /\ \A i \in TouchedStrokes : strokes_'[i].id = k
      /\ lastCall'.op = "pointerEvent"
         => /\ UNCHANGED <<rectangles_, strokes_, strokeIndex_, width_, height_>>
            /\ TouchedKeys(presences_, presences_') \subseteq {lastCall'.event.pointerId}
      /\ lastCall'.op = "resize"
         => UNCHANGED <<rectangles_, strokes_, strokeIndex_, presences_,
                        presenceOrder>> ]_vars

\* C17 witness: a stroke was just started while another id is active and a
\* rectangle and a presence exist.
C17_Witness ==
  /\ Executed("startStroke")
  /\ Cardinality(DOMAIN strokeIndex_) = 2
  /\ Len(rectangles_) >= 1
  /\ DOMAIN presences_ # {}

\* C18: a rectangle at position i stays at position i, unchanged, in every
\* later state; strokes and presence entries are never removed, so the
\* numbers of rectangles, strokes and presences never decrease.
C18_NothingIsRemoved ==
  [][ /\ Len(rectangles_') >= Len(rectangles_)
      /\ \A i \in 1..Len(rectangles_) : rectangles_'[i] = rectangles_[i]
      /\ Len(strokes_') >= Len(strokes_)
      /\ \A j \in 1..Len(strokes_) :
           /\ strokes_'[j].id = strokes_[j].id
           /\ strokes_'[j].name = strokes_[j].name
      /\ DOMAIN presences_ \subseteq DOMAIN presences_'
      /\ Cardinality(DOMAIN presences_') >= Cardinality(DOMAIN presences_) ]_vars

\* C18 witness: two rectangles, a stroke that was finished and a presence
\* exist.
C18_Witness ==
  /\ Len(rectangles_) = 2
  /\ Executed("finishStroke")
  /\ DOMAIN frozen # {}
  /\ DOMAIN presences_ # {}

\* The positions of the stroke collection that carry the given id.
Carrying(id) == { pos \in 1..Len(strokes_) : strokes_[pos].id = id }

\* The positions whose stroke is followed by a later stroke with the same id.
Superseded ==
  { pos \in 1..Len(strokes_) : \E later \in Carrying(strokes_[pos].id) : later > pos }

\* C19: a startStroke(id) executed while id is active leaves the previously
\* active stroke in the collection and in the tick() output with its points
\* unchanged, and overwrites the index entry of id to the newly appended
\* stroke; afterwards an updateStroke(id) appends only to the newest stroke
\* with that id and an older stroke with that id never changes again; a
\* single finishStroke(id) leaves no stroke with that id active.
C19_RestartOrphansOlderStroke ==
  [][ /\ ( /\ lastCall'.op = "execute"
           /\ lastCall'.command.type = "startStroke"
           /\ lastCall'.command.id \in DOMAIN strokeIndex_ )
         => LET id == lastCall'.command.id
                old == strokeIndex_[id] + 1
            IN  /\ Len(strokes_') = Len(strokes_) + 1
                /\ strokes_'[old] = strokes_[old]
                /\ tick'.document.shapes[Len(rectangles_') + old]
                     = strokeShape(strokes_[old])
                /\ strokes_'[Len(strokes_')].id = id
                /\ id \in DOMAIN strokeIndex_'
                /\ strokeIndex_'[id] + 1 = Len(strokes_')
      /\ \A pos \in Superseded : strokes_'[pos] = strokes_[pos]
      /\ ( /\ lastCall'.op = "execute"
           /\ lastCall'.command.type = "updateStroke"
           /\ lastCall'.command.id \in DOMAIN strokeIndex_ )
         => LET id == lastCall'.command.id
                newest == CHOOSE pos \in Carrying(id) :
                            \A other \in Carrying(id) : other <= pos
            IN  /\ strokes_'[newest].points
                     = Append(strokes_[newest].points,
                              [x |-> lastCall'.command.x, y |-> lastCall'.command.y])
                /\ \A pos \in 1..Len(strokes_) :
                     pos # newest => strokes_'[pos] = strokes_[pos]
      /\ ( /\ lastCall'.op = "execute"
           /\ lastCall'.command.type = "finishStroke" )
         => /\ lastCall'.command.id \notin DOMAIN strokeIndex_'
            /\ \A pos \in 1..Len(strokes_') :
                 strokes_'[pos].id = lastCall'.command.id
                   => \A id \in DOMAIN strokeIndex_' : strokeIndex_'[id] + 1 # pos
    ]_vars

\* C19 witness: an id was started twice, updated and then finished once; the
\* older stroke still has its single point, the newest has two, and the id
\* is no longer in the index.
C19_Witness ==
  /\ Executed("finishStroke")
  /\ lastCall.command.id \notin DOMAIN strokeIndex_
  /\ \E pos \in Superseded :
       /\ strokes_[pos].id = lastCall.command.id
       /\ Len(strokes_[pos].points) = 1
       /\ \E later \in Carrying(strokes_[pos].id) :
            later > pos /\ Len(strokes_[later].points) = 2

\* C20: every entry (id -> pos) of the active stroke index has pos smaller
\* than the number of strokes, the stroke at pos has that id, and no later
\* stroke has that id; so findStroke never takes its out-of-range guard, and
\* an id is in the index exactly when the latest startStroke/finishStroke
\* command for that id was a startStroke.
C20_IndexConsistent ==
  /\ \A id \in DOMAIN strokeIndex_ :
       /\ strokeIndex_[id] >= 0
       /\ strokeIndex_[id] < Len(strokes_)
       /\ strokes_[strokeIndex_[id] + 1].id = id
       /\ \A pos \in Carrying(id) : pos <= strokeIndex_[id] + 1
       /\ findStroke(id) = strokeIndex_[id]
  /\ DOMAIN strokeIndex_ = DOMAIN run
  /\ DOMAIN strokeIndex_ \cap finishedIds = {}

\* C20 witness: two ids are active and one of them is carried by two strokes.
C20_Witness ==
  /\ Cardinality(DOMAIN strokeIndex_) = 2
  /\ \E id \in DOMAIN strokeIndex_ : Cardinality(Carrying(id)) = 2

====
